---- MODULE Spec2Model ----
(***************************************************************************)
(* A model of the conditions package: the parser of src/evaluator.go       *)
(* (lines 532-921: Parser, scan, scanWithMapping, parseExpr,               *)
(* parseUnaryExpr, scanArray, scanArg), the evaluator of src/evaluator.go  *)
(* (lines 1-530) and the positional evaluator of src/unnamed/part_000.     *)
(*                                                                         *)
(* The input of the parser is the sequence of tokens text/scanner returns  *)
(* (mode ScanIdents | ScanFloats | ScanStrings): a token is a record       *)
(* [t, tt] of its kind (a character, or Ident, Int, Float, String, EOF)    *)
(* and its text.  A text is a sequence of one-character strings, so that   *)
(* the code's concatenations, slices, upper-casing and conversions are     *)
(* computed and not assumed.                                               *)
(***************************************************************************)
EXTENDS Integers, Sequences, FiniteSets, TLC

VARIABLES
    src,        \* the tokens text/scanner yields for the reader given to NewParser
    parser,     \* Parser: [s: tokens read from the scanner, buf: [tok, tt, n]]
    stack,      \* the call stack of Parse: frames of parseExpr, parseUnaryExpr, scanWithMapping
    ret,        \* the values the last returning call returned
    pc,         \* "init", "parsing", "done", "panic"
    ast,        \* the Expr Parse returned
    parseErr,   \* the error Parse returned
    result,     \* what the last Evaluate call returned
    falseExpr,  \* the Val of the package-level falseExpr literal
    calls,      \* the Evaluate calls that run at the same time, each with its progress
    names       \* what the last call of Variables returned

vars == <<src, parser, stack, ret, pc, ast, parseErr, result, falseExpr, calls, names>>

----------------------------------------------------------------------------
(* Texts *)

Lower == <<"a","b","c","d","e","f","g","h","i","j","k","l","m",
           "n","o","p","q","r","s","t","u","v","w","x","y","z">>
Upper == <<"A","B","C","D","E","F","G","H","I","J","K","L","M",
           "N","O","P","Q","R","S","T","U","V","W","X","Y","Z">>
Digits == <<"0","1","2","3","4","5","6","7","8","9">>

IsDigit(c) == \E i \in 1..10 : Digits[i] = c
DigitVal(c) == (CHOOSE i \in 1..10 : Digits[i] = c) - 1

\* strings.ToUpper, on the ASCII letters
ToUpperChar(c) ==
    IF \E i \in 1..26 : Lower[i] = c
    THEN Upper[CHOOSE i \in 1..26 : Lower[i] = c]
    ELSE c
ToUpper(tt) == [i \in 1..Len(tt) |-> ToUpperChar(tt[i])]

\* strings.HasPrefix(tt, c) for a one-character prefix
HasPrefix(tt, c) == Len(tt) >= 1 /\ tt[1] = c

\* strings.Replace(tt, c, "", -1) for a one-character c
RECURSIVE RemoveChar(_, _)
RemoveChar(tt, c) ==
    IF tt = <<>> THEN <<>>
    ELSE IF Head(tt) = c THEN RemoveChar(Tail(tt), c)
    ELSE <<Head(tt)>> \o RemoveChar(Tail(tt), c)

RECURSIVE DigitsValue(_, _)
DigitsValue(tt, acc) ==
    IF tt = <<>> THEN acc ELSE DigitsValue(Tail(tt), 10 * acc + DigitVal(Head(tt)))

AllDigits(tt) == Len(tt) >= 1 /\ \A i \in 1..Len(tt) : IsDigit(tt[i])

\* strconv.Atoi: an optional sign and decimal digits
Atoi(tt) ==
    IF AllDigits(tt) THEN [ok |-> TRUE, v |-> DigitsValue(tt, 0)]
    ELSE IF Len(tt) >= 2 /\ tt[1] \in {"-", "+"} /\ AllDigits(Tail(tt))
    THEN [ok |-> TRUE, v |-> IF tt[1] = "-" THEN 0 - DigitsValue(Tail(tt), 0)
                                            ELSE DigitsValue(Tail(tt), 0)]
    ELSE [ok |-> FALSE, v |-> 0]

\* strconv.ParseFloat(lit, 64), on the integral numerals the model's inputs use
ParseFloat(lit) == Atoi(lit)

----------------------------------------------------------------------------
(* Tokens of text/scanner *)

EOFTok == [t |-> "EOF", tt |-> <<>>]
Ch(c) == [t |-> c, tt |-> <<c>>]
Ident(tt) == [t |-> "Ident", tt |-> tt]
IntTok(tt) == [t |-> "Int", tt |-> tt]
StringTok(body) == [t |-> "String", tt |-> <<"\"">> \o body \o <<"\"">>]

NoErr == "nil"

\* p.scan(): the buffered token if one was unscanned, else the scanner's next token
scan(q) ==
    IF q.buf.n # 0
    THEN [p |-> [q EXCEPT !.buf.n = 0], t |-> q.buf.tok, tt |-> q.buf.tt]
    ELSE LET tk == IF q.s < Len(src) THEN src[q.s + 1] ELSE EOFTok
             s2 == IF q.s < Len(src) THEN q.s + 1 ELSE q.s
         IN [p |-> [s |-> s2, buf |-> [tok |-> tk.t, tt |-> tk.tt, n |-> 0]],
             t |-> tk.t, tt |-> tk.tt]

\* p.unscan()
unscan(q) == [q EXCEPT !.buf.n = 1]

----------------------------------------------------------------------------
(* Tokens of the language *)

\* The binary operators of the language (spec section 3; the first eight are
\* the tokens src/token.go declares between operatorBegin and operatorEnd)
OperatorTokens ==
    {"AND", "OR", "EQ", "NEQ", "LT", "LTE", "GT", "GTE",
     "XOR", "NAND", "IN", "NOTIN", "EREG", "NEREG", "INTERSECTS", "HAS"}

\* Token.isOperator
isOperator(tok) == tok \in OperatorTokens

\* The precedence of the operators src/token.go does not name (spec section 3)
NewOperatorPrecedence(tok) ==
    CASE tok \in {"XOR", "NAND"} -> 2
      [] tok \in {"IN", "NOTIN", "EREG", "NEREG", "INTERSECTS", "HAS"} -> 3
      [] OTHER -> 0

PrecedenceSwapped(tok) ==
    CASE tok = "OR" -> 2
      [] tok = "AND" -> 1
      [] tok \in {"EQ", "NEQ", "LT", "LTE", "GT", "GTE"} -> 3
      [] OTHER -> NewOperatorPrecedence(tok)

\* Token.Precedence
Precedence(tok) ==
    CASE tok = "OR" -> 1
      [] tok = "AND" -> 2
      [] tok \in {"EQ", "NEQ", "LT", "LTE", "GT", "GTE"} -> 3
      [] OTHER -> NewOperatorPrecedence(tok)

W_AND == <<"A","N","D">>
W_OR == <<"O","R">>
W_XOR == <<"X","O","R">>
W_NAND == <<"N","A","N","D">>
W_IN == <<"I","N">>
W_NOT == <<"N","O","T">>
W_INTERSECTS == <<"I","N","T","E","R","S","E","C","T","S">>
W_HAS == <<"H","A","S">>
W_TRUE == <<"T","R","U","E">>
W_FALSE == <<"F","A","L","S","E">>

\* What a scanWithMapping call has come to: a token (loop = "none"), or the
\* entry of one of its scanning loops with the text read so far
Mapped(q, tok, tt) == [p |-> q, tok |-> tok, tt |-> tt, loop |-> "none"]
InLoop(q, loop, tt) == [p |-> q, tok |-> "ILLEGAL", tt |-> tt, loop |-> loop]

\* Parser.scanArg: [name], [name][key] ... to name.key ..., "@" kept
RECURSIVE scanArgLoop(_, _, _)
scanArgLoop(q, tt, sep) ==
    LET s1 == scan(q)
        tt1 == tt \o sep \o s1.tt
    IN IF s1.t = "@" THEN scanArgLoop(s1.p, tt1, sep)
       ELSE LET s2 == scan(s1.p)
            IN IF s2.t = "]"
               THEN LET s3 == scan(s2.p)
                    IN IF s3.t = "["
                       THEN scanArgLoop(s3.p, tt1, <<".">>)
                       ELSE [p |-> unscan(s3.p), tt |-> tt1, err |-> NoErr]
               ELSE [p |-> s2.p, tt |-> tt1, err |-> "Args error"]

scanArg(q) == scanArgLoop(q, <<>>, <<>>)

\* The keyword and identifier mapping of scanWithMapping (case scanner.Ident)
mapIdent(q, tt) ==
    LET ttU == ToUpper(tt)
    IN CASE ttU = W_AND -> Mapped(q, "AND", tt)
         [] ttU = W_OR -> Mapped(q, "OR", tt)
         [] ttU = W_XOR -> Mapped(q, "XOR", tt)
         [] ttU = W_NAND -> Mapped(q, "NAND", tt)
         [] ttU = W_IN -> Mapped(q, "IN", tt)
         [] ttU = W_INTERSECTS -> Mapped(q, "INTERSECTS", tt)
         [] ttU = W_HAS -> Mapped(q, "HAS", tt)
         [] ttU = W_NOT ->
              LET s2 == scan(q)
              IN IF ToUpper(s2.tt) = W_IN
                 THEN Mapped(s2.p, "NOTIN", <<"N","O","T"," ","I","N">>)
                 ELSE Mapped(unscan(s2.p), "ILLEGAL", tt)
         [] ttU = W_TRUE -> Mapped(q, "TRUE", tt)
         [] ttU = W_FALSE -> Mapped(q, "FALSE", tt)
         [] HasPrefix(ttU, "C") \/ HasPrefix(ttU, "P") -> Mapped(q, "IDENT", tt)
         [] OTHER -> Mapped(q, "ILLEGAL", tt)

\* Parser.scanWithMapping, up to the entry of its loops (the "/" pattern loop
\* and scanArray), which the actions ScanPattern and ScanArray iterate
scanWithMapping(q) ==
    LET s1 == scan(q)
        t == s1.t
        tt == s1.tt
        s2 == scan(s1.p)
    IN CASE t = "EOF" -> Mapped(s1.p, "EOF", tt)
         [] t = "(" -> Mapped(s1.p, "LPAREN", tt)
         [] t = ")" -> Mapped(s1.p, "RPAREN", tt)
         [] t = "-" ->
              IF s2.t \in {"Float", "Int"}
              THEN Mapped(s2.p, "NUMBER", <<"-">> \o s2.tt)
              ELSE Mapped(s2.p, "ILLEGAL", s2.tt)
         [] t \in {"Float", "Int"} -> Mapped(s1.p, "NUMBER", tt)
         [] t = "$" ->
              IF s2.t \in {"Float", "Int"}
              THEN Mapped(s2.p, "IDENT", <<"$">> \o s2.tt)
              ELSE Mapped(s2.p, "ILLEGAL", s2.tt)
         [] t = "[" ->
              LET a == scanArg(s1.p)
              IN IF a.err # NoErr
                 THEN InLoop(unscan(a.p), "scanArray", a.tt)
                 ELSE Mapped(a.p, "IDENT", a.tt)
         [] t = "!" ->
              IF s2.t = "=" THEN Mapped(s2.p, "NEQ", <<"!","=">>)
              ELSE IF s2.t = "~" THEN Mapped(s2.p, "NEREG", <<"!","~">>)
              ELSE Mapped(s2.p, "ILLEGAL", s2.tt)
         [] t = ">" ->
              IF s2.t = "=" THEN Mapped(s2.p, "GTE", <<">","=">>)
              ELSE Mapped(unscan(s2.p), "GT", <<">">>)
         [] t = "<" ->
              IF s2.t = "=" THEN Mapped(s2.p, "LTE", <<"<","=">>)
              ELSE Mapped(unscan(s2.p), "LT", <<"<">>)
         [] t = "=" ->
              IF s2.t = "=" THEN Mapped(s2.p, "EQ", <<"=","=">>)
              ELSE IF s2.t = "~" THEN Mapped(s2.p, "EREG", <<"=","~">>)
              ELSE Mapped(s2.p, "ILLEGAL", s2.tt)
         [] t = "/" -> InLoop(s1.p, "scanPattern", tt)
         [] t = "String" -> Mapped(s1.p, "STRING", tt)
         [] t = "Ident" -> mapIdent(s1.p, tt)
         [] OTHER -> Mapped(s1.p, "ILLEGAL", tt)

----------------------------------------------------------------------------
(* The AST *)

Nil == [node |-> "nil"]
BooleanLiteral(b) == [node |-> "BooleanLiteral", Val |-> b]
NumberLiteral(n) == [node |-> "NumberLiteral", Val |-> n]
StringLiteral(tt) == [node |-> "StringLiteral", Val |-> tt]
SliceStringLiteral(ss) == [node |-> "SliceStringLiteral", Val |-> ss]
SliceNumberLiteral(ns) == [node |-> "SliceNumberLiteral", Val |-> ns]
VarRef(tt) == [node |-> "VarRef", Val |-> tt]
ParenExpr(e) == [node |-> "ParenExpr", Expr |-> e]
BinaryExpr(l, op, r) == [node |-> "BinaryExpr", Op |-> op, LHS |-> l, RHS |-> r]

----------------------------------------------------------------------------
(* encoding/json, as parseUnaryExpr uses it: json.Unmarshal of "[" lit "]"   *)
(* into a []interface{}.  lit holds no white space outside strings (it is a  *)
(* concatenation of token texts); the elements decoded are strings without   *)
(* escapes, integral numbers, true, false and null.                          *)

\* The pieces of lit between the commas that are outside strings
RECURSIVE jsonSplit(_, _, _, _)
jsonSplit(chars, cur, inStr, acc) ==
    IF chars = <<>> THEN Append(acc, cur)
    ELSE LET c == Head(chars)
         IN IF c = "," /\ ~inStr
            THEN jsonSplit(Tail(chars), <<>>, FALSE, Append(acc, cur))
            ELSE jsonSplit(Tail(chars), Append(cur, c),
                           IF c = "\"" THEN ~inStr ELSE inStr, acc)

jsonIsString(seg) ==
    /\ Len(seg) >= 2
    /\ seg[1] = "\"" /\ seg[Len(seg)] = "\""
    /\ \A i \in 2..(Len(seg) - 1) : seg[i] \notin {"\"", "\\"}

jsonIsNumber(seg) ==
    LET digits == IF HasPrefix(seg, "-") THEN Tail(seg) ELSE seg
    IN AllDigits(digits) /\ (Len(digits) = 1 \/ digits[1] # "0")

jsonValue(seg) ==
    CASE jsonIsString(seg) -> [k |-> "string", s |-> SubSeq(seg, 2, Len(seg) - 1)]
      [] jsonIsNumber(seg) -> [k |-> "float64", n |-> Atoi(seg).v]
      [] seg = <<"t","r","u","e">> -> [k |-> "bool", b |-> TRUE]
      [] seg = <<"f","a","l","s","e">> -> [k |-> "bool", b |-> FALSE]
      [] seg = <<"n","u","l","l">> -> [k |-> "nil"]
      [] OTHER -> [k |-> "invalid"]

\* json.Unmarshal: the decoded elements, or an error that leaves mapVal empty
jsonUnmarshal(lit) ==
    LET segs == IF lit = <<>> THEN <<>> ELSE jsonSplit(lit, <<>>, FALSE, <<>>)
        vals == [i \in 1..Len(segs) |-> jsonValue(segs[i])]
    IN IF \E i \in 1..Len(vals) : vals[i].k = "invalid"
       THEN [mapVal |-> <<>>, err |-> "invalid character"]
       ELSE [mapVal |-> vals, err |-> NoErr]

----------------------------------------------------------------------------
(* Parser.parseUnaryExpr and Parser.parseExpr *)

Returned(e, er) == [panic |-> FALSE, expr |-> e, err |-> er]
Panicked == [panic |-> TRUE, expr |-> Nil, err |-> "panic"]

\* case ARRAY of parseUnaryExpr
parseArray(lit) ==
    LET d == jsonUnmarshal(lit)
        mapVal == d.mapVal
    IN IF Len(mapVal) = 0 THEN Returned(Nil, "Empty Slice not castable")
       ELSE CASE mapVal[1].k = "string" ->
                   \* v.(string) panics on an element that is not a string
                   IF \E i \in 1..Len(mapVal) : mapVal[i].k # "string"
                   THEN Panicked
                   ELSE Returned(SliceStringLiteral([i \in 1..Len(mapVal) |-> mapVal[i].s]), d.err)
              [] mapVal[1].k = "float64" ->
                   IF \E i \in 1..Len(mapVal) : mapVal[i].k # "float64"
                   THEN Panicked
                   ELSE Returned(SliceNumberLiteral([i \in 1..Len(mapVal) |-> mapVal[i].n]), d.err)
              [] OTHER -> Returned(Nil, "Slice of unknow type")

parseUnaryTokenNoError(tok, lit) ==
    CASE tok = "IDENT" -> Returned(VarRef(lit), NoErr)
      [] tok = "STRING" ->
           IF Len(lit) < 2 THEN Panicked
           ELSE Returned(StringLiteral(SubSeq(lit, 2, Len(lit) - 1)), NoErr)
      [] tok = "NUMBER" ->
           IF ParseFloat(lit).ok THEN Returned(NumberLiteral(ParseFloat(lit).v), NoErr)
           ELSE Returned(Nil, "Unable to parse number")
      [] tok \in {"TRUE", "FALSE"} -> Returned(BooleanLiteral(tok = "TRUE"), NoErr)
      [] tok = "ARRAY" -> parseArray(lit)
      [] OTHER -> Returned(Nil, NoErr)

\* The switch of parseUnaryExpr on a token that is not LPAREN
parseUnaryToken(tok, lit) ==
    CASE tok = "IDENT" -> Returned(VarRef(lit), NoErr)
      [] tok = "STRING" ->
           \* lit[1 : len(lit)-1] panics when len(lit) < 2
           IF Len(lit) < 2 THEN Panicked
           ELSE Returned(StringLiteral(SubSeq(lit, 2, Len(lit) - 1)), NoErr)
      [] tok = "NUMBER" ->
           IF ParseFloat(lit).ok THEN Returned(NumberLiteral(ParseFloat(lit).v), NoErr)
           ELSE Returned(Nil, "Unable to parse number")
      [] tok \in {"TRUE", "FALSE"} -> Returned(BooleanLiteral(tok = "TRUE"), NoErr)
      [] tok = "ARRAY" -> parseArray(lit)
      [] OTHER -> Returned(Nil, "Parsing error")

\* The new root parseExpr builds from the tree so far, an operator and its
\* right operand
newRoot(e, op, rhs) ==
    IF e.node = "BinaryExpr" /\ Precedence(e.Op) <= Precedence(op)
    THEN BinaryExpr(e.LHS, e.Op, BinaryExpr(e.RHS, op, rhs))
    ELSE BinaryExpr(e, op, rhs)

----------------------------------------------------------------------------
(* The call stack of Parse *)

Frame(fn, at, e, op, tt) == [fn |-> fn, at |-> at, expr |-> e, op |-> op, tt |-> tt]
ScanFrame == Frame("scanWithMapping", "start", Nil, "ILLEGAL", <<>>)
UnaryFrame == Frame("parseUnaryExpr", "tok", Nil, "ILLEGAL", <<>>)
ExprFrame == Frame("parseExpr", "unary", Nil, "ILLEGAL", <<>>)

Top == stack[Len(stack)]
Below == SubSeq(stack, 1, Len(stack) - 1)
AtTop(fn, at) == pc = "parsing" /\ Len(stack) > 0 /\ Top.fn = fn /\ Top.at = at

\* A call of parseUnaryExpr begins with its call of scanWithMapping, and a
\* call of parseExpr with its call of parseUnaryExpr
callScan(st) == Append(st, ScanFrame)
callUnary(st) == callScan(Append(st, UnaryFrame))
callExpr(st) == callUnary(Append(st, ExprFrame))

RetTok(tok, tt) == [tok |-> tok, tt |-> tt, expr |-> Nil, err |-> NoErr]
RetExpr(e, er) == [tok |-> "ILLEGAL", tt |-> <<>>, expr |-> e, err |-> er]

NoResult == [called |-> "none", args |-> <<>>, b |-> FALSE, err |-> NoErr, panic |-> FALSE]

----------------------------------------------------------------------------
(* The steps of Parse *)

\* Parser.Parse: return p.parseExpr()
Parse ==
    /\ pc = "init"
    /\ pc' = "parsing"
    /\ stack' = callExpr(<<>>)
    /\ UNCHANGED <<calls, names, src, parser, ret, ast, parseErr, result, falseExpr>>

\* scanWithMapping, from its call to its return or to the entry of a loop
ScanWithMapping ==
    /\ AtTop("scanWithMapping", "start")
    /\ LET r == scanWithMapping(parser)
       IN /\ parser' = r.p
          /\ stack' = IF r.loop = "none" THEN Below
                      ELSE Append(Below, [Top EXCEPT !.at = r.loop, !.tt = r.tt])
          /\ ret' = IF r.loop = "none" THEN RetTok(r.tok, r.tt) ELSE ret
    /\ UNCHANGED <<calls, names, src, pc, ast, parseErr, result, falseExpr>>

\* The loop of scanArray, t, ttTmp = p.scan(): the token read is the one
\* the buffer holds
ScanArray ==
    /\ AtTop("scanWithMapping", "scanArray")
    /\ parser' = scan(parser).p
    /\ stack' = Append(Below, [Top EXCEPT !.at = "scanArrayTest"])
    /\ UNCHANGED <<calls, names, src, ret, pc, ast, parseErr, result, falseExpr>>

\* The loop of scanArray, after the scan: it returns on "]" and on nothing
\* else; any other token's text is appended and the loop goes round
ScanArrayTest ==
    /\ AtTop("scanWithMapping", "scanArrayTest")
    /\ stack' = IF parser.buf.tok = "]" THEN Below
                ELSE Append(Below, [Top EXCEPT !.at = "scanArray",
                                                !.tt = Top.tt \o parser.buf.tt])
    /\ ret' = IF parser.buf.tok = "]" THEN RetTok("ARRAY", Top.tt) ELSE ret
    /\ UNCHANGED <<calls, names, src, parser, pc, ast, parseErr, result, falseExpr>>

\* The "/" loop of scanWithMapping, t, ttTmp = p.scan(); tt = tt + ttTmp
ScanPattern ==
    /\ AtTop("scanWithMapping", "scanPattern")
    /\ parser' = scan(parser).p
    /\ stack' = Append(Below, [Top EXCEPT !.at = "scanPatternTest",
                                           !.tt = Top.tt \o scan(parser).tt])
    /\ UNCHANGED <<calls, names, src, ret, pc, ast, parseErr, result, falseExpr>>

\* The "/" loop of scanWithMapping, after the scan: it ends on "/" and on
\* nothing else
ScanPatternTest ==
    /\ AtTop("scanWithMapping", "scanPatternTest")
    /\ stack' = IF parser.buf.tok = "/" THEN Below
                ELSE Append(Below, [Top EXCEPT !.at = "scanPattern"])
    /\ ret' = IF parser.buf.tok = "/" THEN RetTok("STRING", Top.tt) ELSE ret
    /\ UNCHANGED <<calls, names, src, parser, pc, ast, parseErr, result, falseExpr>>

\* parseUnaryExpr, after its first token: "(" calls parseExpr, any other token
\* is the operand or an error
ParseUnaryTok ==
    /\ AtTop("parseUnaryExpr", "tok")
    /\ LET u == parseUnaryToken(ret.tok, ret.tt)
       IN IF ret.tok = "LPAREN"
          THEN /\ stack' = callExpr(Append(Below, [Top EXCEPT !.at = "inner"]))
               /\ UNCHANGED <<ret, pc>>
          ELSE IF u.panic
          THEN /\ pc' = "panic"
               /\ UNCHANGED <<stack, ret>>
          ELSE /\ stack' = Below
               /\ ret' = RetExpr(u.expr, u.err)
               /\ pc' = pc
    /\ UNCHANGED <<calls, names, src, parser, ast, parseErr, result, falseExpr>>

\* parseUnaryExpr, after the parseExpr of a group: an error is passed on, else
\* the next token is read
ParseUnaryInner ==
    /\ AtTop("parseUnaryExpr", "inner")
    /\ IF ret.err # NoErr
       THEN /\ stack' = Below
            /\ ret' = RetExpr(Nil, ret.err)
       ELSE /\ stack' = callScan(Append(Below, [Top EXCEPT !.at = "rparen", !.expr = ret.expr]))
            /\ ret' = ret
    /\ UNCHANGED <<calls, names, src, parser, pc, ast, parseErr, result, falseExpr>>

\* parseUnaryExpr, after the token that must be ")"
ParseUnaryRparen ==
    /\ AtTop("parseUnaryExpr", "rparen")
    /\ stack' = Below
    /\ ret' = IF ret.tok # "RPAREN" THEN RetExpr(Nil, "Missing )")
              ELSE RetExpr(ParenExpr(Top.expr), NoErr)
    /\ UNCHANGED <<calls, names, src, parser, pc, ast, parseErr, result, falseExpr>>

\* parseExpr, after its first parseUnaryExpr
ParseExprUnary ==
    /\ AtTop("parseExpr", "unary")
    /\ IF ret.err # NoErr
       THEN /\ stack' = Below
            /\ ret' = RetExpr(Nil, ret.err)
       ELSE /\ stack' = callScan(Append(Below, [Top EXCEPT !.at = "op", !.expr = ret.expr]))
            /\ ret' = ret
    /\ UNCHANGED <<calls, names, src, parser, pc, ast, parseErr, result, falseExpr>>

\* parseExpr, after the token that follows an operand: an illegal token is an
\* error, a token that is no operator is pushed back and ends the expression,
\* an operator is followed by parseUnaryExpr
ParseExprOp ==
    /\ AtTop("parseExpr", "op")
    /\ IF ret.tok = "ILLEGAL"
       THEN /\ stack' = Below
            /\ ret' = RetExpr(Nil, "ILLEGAL")
            /\ parser' = parser
       ELSE IF ~isOperator(ret.tok)
       THEN /\ stack' = Below
            /\ ret' = RetExpr(Top.expr, NoErr)
            /\ parser' = unscan(parser)
       ELSE /\ stack' = callUnary(Append(Below, [Top EXCEPT !.at = "rhs", !.op = ret.tok]))
            /\ ret' = ret
            /\ parser' = parser
    /\ UNCHANGED <<calls, names, src, pc, ast, parseErr, result, falseExpr>>

\* parseExpr, after the parseUnaryExpr of a right operand
ParseExprRhs ==
    /\ AtTop("parseExpr", "rhs")
    /\ IF ret.err # NoErr
       THEN /\ stack' = Below
            /\ ret' = RetExpr(Nil, ret.err)
       ELSE /\ stack' = callScan(Append(Below,
                           [Top EXCEPT !.at = "op", !.expr = newRoot(Top.expr, Top.op, ret.expr)]))
            /\ ret' = ret
    /\ UNCHANGED <<calls, names, src, parser, pc, ast, parseErr, result, falseExpr>>

\* Parse returns what parseExpr returned
ParseReturn ==
    /\ pc = "parsing"
    /\ stack = <<>>
    /\ pc' = "done"
    /\ ast' = ret.expr
    /\ parseErr' = ret.err
    /\ UNCHANGED <<calls, names, src, parser, stack, ret, result, falseExpr>>

----------------------------------------------------------------------------
(* The operator library *)

\* What a call of the evaluator returns: an Expr (alias tells whether it is
\* the package-level falseExpr, a literal the call allocated, a node of the
\* AST or nil), an error, and the Val of falseExpr after the call; or a panic
Ret(e, alias, er, fv) == [panic |-> FALSE, expr |-> e, alias |-> alias, err |-> er, fv |-> fv]
Crash(fv) == [panic |-> TRUE, expr |-> Nil, alias |-> "nil", err |-> "panic", fv |-> fv]
RetFalseExpr(er, fv) == Ret(BooleanLiteral(fv), "falseExpr", er, fv)
RetNew(b, er, fv) == Ret(BooleanLiteral(b), "new", er, fv)
RetNil(er, fv) == Ret(Nil, "nil", er, fv)

getBoolean(e) ==
    IF e.node = "BooleanLiteral" THEN [ok |-> TRUE, v |-> e.Val] ELSE [ok |-> FALSE, v |-> FALSE]
getString(e) ==
    IF e.node = "StringLiteral" THEN [ok |-> TRUE, v |-> e.Val] ELSE [ok |-> FALSE, v |-> <<>>]
getNumber(e) ==
    IF e.node = "NumberLiteral" THEN [ok |-> TRUE, v |-> e.Val] ELSE [ok |-> FALSE, v |-> 0]
getSliceString(e) ==
    IF e.node = "SliceStringLiteral" THEN [ok |-> TRUE, v |-> e.Val] ELSE [ok |-> FALSE, v |-> <<>>]
getSliceNumber(e) ==
    IF e.node = "SliceNumberLiteral" THEN [ok |-> TRUE, v |-> e.Val] ELSE [ok |-> FALSE, v |-> <<>>]

\* The four handlers of two booleans: an operand that is no boolean gives
\* (nil, error)
applyBoolean(op, l, r, fv) ==
    LET a == getBoolean(l)
        b == getBoolean(r)
    IN IF ~a.ok \/ ~b.ok THEN RetNil("Literal is not a boolean", fv)
       ELSE CASE op = "AND" -> RetNew(a.v /\ b.v, NoErr, fv)
              [] op = "OR" -> RetNew(a.v \/ b.v, NoErr, fv)
              [] op = "XOR" -> RetNew(a.v # b.v, NoErr, fv)
              [] op = "NAND" -> RetNew(~(a.v /\ b.v), NoErr, fv)

\* applyGT, applyGTE, applyLT: an operand that is no number gives (nil, error)
applyCompare(op, l, r, fv) ==
    LET a == getNumber(l)
        b == getNumber(r)
    IN IF ~a.ok \/ ~b.ok THEN RetNil("Literal is not a number", fv)
       ELSE CASE op = "GT" -> RetNew(a.v > b.v, NoErr, fv)
              [] op = "GTE" -> RetNew(a.v >= b.v, NoErr, fv)
              [] op = "LT" -> RetNew(a.v < b.v, NoErr, fv)

\* applyLTE: an operand that is no number gives (falseExpr, error)
applyLTE(l, r, fv) ==
    LET a == getNumber(l)
        b == getNumber(r)
    IN IF ~a.ok \/ ~b.ok THEN RetFalseExpr("Literal is not a number", fv)
       ELSE RetNew(a.v <= b.v, NoErr, fv)

applyEQNoMismatchError(l, r, fv) ==
    IF getString(l).ok /\ getString(r).ok THEN RetNew(getString(l).v = getString(r).v, NoErr, fv)
    ELSE IF getNumber(l).ok /\ getNumber(r).ok THEN RetNew(getNumber(l).v = getNumber(r).v, NoErr, fv)
    ELSE IF getBoolean(l).ok /\ getBoolean(r).ok THEN RetNew(getBoolean(l).v = getBoolean(r).v, NoErr, fv)
    ELSE RetFalseExpr(NoErr, fv)

\* applyEQ
applyEQ(l, r, fv) ==
    IF getString(l).ok
    THEN IF ~getString(r).ok THEN RetFalseExpr("Cannot compare string with non-string", fv)
         ELSE RetNew(getString(l).v = getString(r).v, NoErr, fv)
    ELSE IF getNumber(l).ok
    THEN IF ~getNumber(r).ok THEN RetFalseExpr("Cannot compare number with non-number", fv)
         ELSE RetNew(getNumber(l).v = getNumber(r).v, NoErr, fv)
    ELSE IF getBoolean(l).ok
    THEN IF ~getBoolean(r).ok THEN RetFalseExpr("Cannot compare boolean with non-boolean", fv)
         ELSE RetNew(getBoolean(l).v = getBoolean(r).v, NoErr, fv)
    ELSE RetFalseExpr(NoErr, fv)

applyNQNegatesEQ(l, r, fv) ==
    IF getString(l).ok /\ getString(r).ok THEN RetNew(getString(l).v # getString(r).v, NoErr, fv)
    ELSE IF getNumber(l).ok /\ getNumber(r).ok THEN RetNew(getNumber(l).v # getNumber(r).v, NoErr, fv)
    ELSE IF getBoolean(l).ok /\ getBoolean(r).ok THEN RetNew(getBoolean(l).v # getBoolean(r).v, NoErr, fv)
    ELSE RetNew(TRUE, NoErr, fv)

\* applyNQ
applyNQ(l, r, fv) ==
    IF getString(l).ok
    THEN IF ~getString(r).ok THEN RetFalseExpr("Cannot compare string with non-string", fv)
         ELSE RetNew(getString(l).v # getString(r).v, NoErr, fv)
    ELSE IF getNumber(l).ok
    THEN IF ~getNumber(r).ok THEN RetFalseExpr("Cannot compare number with non-number", fv)
         ELSE RetNew(getNumber(l).v # getNumber(r).v, NoErr, fv)
    ELSE IF getBoolean(l).ok
    THEN IF ~getBoolean(r).ok THEN RetFalseExpr("Cannot compare boolean with non-boolean", fv)
         ELSE RetNew(getBoolean(l).v # getBoolean(r).v, NoErr, fv)
    ELSE RetFalseExpr(NoErr, fv)

Contains(seq, x) == \E i \in 1..Len(seq) : seq[i] = x

applyINSharedFalse(l, r, fv) ==
    CASE l.node = "StringLiteral" ->
           IF ~getSliceString(r).ok THEN RetNil("Literal is not a slice of string", fv)
           ELSE IF Contains(getSliceString(r).v, l.Val) THEN RetNew(TRUE, NoErr, fv)
           ELSE RetFalseExpr(NoErr, fv)
      [] l.node = "NumberLiteral" ->
           IF ~getSliceNumber(r).ok THEN RetNil("Literal is not a slice of float64", fv)
           ELSE IF Contains(getSliceNumber(r).v, l.Val) THEN RetNew(TRUE, NoErr, fv)
           ELSE RetFalseExpr(NoErr, fv)
      [] OTHER -> RetNil("Can not evaluate Literal of unknow type", fv)

applyINLastOnly(l, r, fv) ==
    CASE l.node = "StringLiteral" ->
           IF ~getSliceString(r).ok THEN RetNil("Literal is not a slice of string", fv)
           ELSE LET b == getSliceString(r).v
                IN RetNew(b # <<>> /\ b[Len(b)] = l.Val, NoErr, fv)
      [] l.node = "NumberLiteral" ->
           IF ~getSliceNumber(r).ok THEN RetNil("Literal is not a slice of float64", fv)
           ELSE LET b == getSliceNumber(r).v
                IN RetNew(b # <<>> /\ b[Len(b)] = l.Val, NoErr, fv)
      [] OTHER -> RetNil("Can not evaluate Literal of unknow type", fv)

\* applyIN
applyIN(l, r, fv) ==
    CASE l.node = "StringLiteral" ->
           IF ~getSliceString(r).ok THEN RetNil("Literal is not a slice of string", fv)
           ELSE RetNew(Contains(getSliceString(r).v, l.Val), NoErr, fv)
      [] l.node = "NumberLiteral" ->
           IF ~getSliceNumber(r).ok THEN RetNil("Literal is not a slice of float64", fv)
           ELSE RetNew(Contains(getSliceNumber(r).v, l.Val), NoErr, fv)
      [] OTHER -> RetNil("Can not evaluate Literal of unknow type", fv)

\* result.Val = !result.Val on the literal a handler returned: a nil result
\* is dereferenced (a panic), falseExpr is written in place
negate(res) ==
    IF res.alias = "nil" THEN Crash(res.fv)
    ELSE IF res.alias = "falseExpr"
    THEN Ret(BooleanLiteral(~res.fv), "falseExpr", res.err, ~res.fv)
    ELSE Ret(BooleanLiteral(~res.expr.Val), res.alias, res.err, res.fv)

\* applyNOTIN
applyNOTIN(l, r, fv) == negate(applyIN(l, r, fv))

\* regexp.MatchString(pattern, s) on the patterns of the model: literal
\* characters, after an optional "^"; a pattern that holds "(" does not compile
regexpValid(pattern) == ~Contains(pattern, "(")
regexpMatch(pattern, subject) ==
    LET anchored == HasPrefix(pattern, "^")
        lit == IF anchored THEN Tail(pattern) ELSE pattern
        at(i) == i + Len(lit) - 1 <= Len(subject) /\ SubSeq(subject, i, i + Len(lit) - 1) = lit
    IN IF anchored THEN at(1) ELSE \E i \in 1..(Len(subject) + 1) : at(i)

applyEREGSharedFalse(l, r, fv) ==
    IF ~getString(l).ok \/ ~getString(r).ok THEN RetNil("Literal is not a string", fv)
    ELSE IF ~regexpValid(r.Val) THEN RetFalseExpr("error parsing regexp", fv)
    ELSE IF regexpMatch(r.Val, l.Val) THEN RetNew(TRUE, NoErr, fv)
    ELSE RetFalseExpr(NoErr, fv)

\* applyEREG
applyEREG(l, r, fv) ==
    IF ~getString(l).ok \/ ~getString(r).ok THEN RetNil("Literal is not a string", fv)
    ELSE IF ~regexpValid(r.Val) THEN RetNew(FALSE, "error parsing regexp", fv)
    ELSE RetNew(regexpMatch(r.Val, l.Val), NoErr, fv)

\* applyNEREG
applyNEREG(l, r, fv) == negate(applyEREG(l, r, fv))

\* applyINTERSECTS
applyINTERSECTS(l, r, fv) ==
    IF ~getSliceString(l).ok \/ ~getSliceString(r).ok
    THEN RetNew(FALSE, "operand of INTERSECTS operator must have string slice type", fv)
    ELSE RetNew(\E i \in 1..Len(l.Val) : Contains(r.Val, l.Val[i]), NoErr, fv)

\* applyHAS
applyHAS(l, r, fv) ==
    IF ~getSliceString(l).ok
    THEN RetNew(FALSE, "left operand of HAS operator must have string slice type", fv)
    ELSE IF ~getString(r).ok
    THEN RetNew(FALSE, "right operand of HAS operator must be a string", fv)
    ELSE RetNew(Contains(l.Val, r.Val), NoErr, fv)

\* applyOperator of src/unnamed/part_000: the eight operators of src/token.go
applyOperatorLegacy(op, l, r, fv) ==
    CASE op \in {"AND", "OR"} -> applyBoolean(op, l, r, fv)
      [] op = "EQ" -> applyEQ(l, r, fv)
      [] op = "NEQ" -> applyNQ(l, r, fv)
      [] op \in {"GT", "GTE", "LT"} -> applyCompare(op, l, r, fv)
      [] op = "LTE" -> applyLTE(l, r, fv)
      [] OTHER -> RetNew(FALSE, "Unsupported operator", fv)

\* applyOperator of src/evaluator.go
applyOperator(op, l, r, fv) ==
    CASE op \in {"AND", "OR", "XOR", "NAND"} -> applyBoolean(op, l, r, fv)
      [] op = "EQ" -> applyEQ(l, r, fv)
      [] op = "NEQ" -> applyNQ(l, r, fv)
      [] op \in {"GT", "GTE", "LT"} -> applyCompare(op, l, r, fv)
      [] op = "LTE" -> applyLTE(l, r, fv)
      [] op = "IN" -> applyIN(l, r, fv)
      [] op = "NOTIN" -> applyNOTIN(l, r, fv)
      [] op = "EREG" -> applyEREG(l, r, fv)
      [] op = "NEREG" -> applyNEREG(l, r, fv)
      [] op = "INTERSECTS" -> applyINTERSECTS(l, r, fv)
      [] op = "HAS" -> applyHAS(l, r, fv)
      [] OTHER -> RetNew(FALSE, "Unsupported operator", fv)

----------------------------------------------------------------------------
(* Evaluate *)

\* The values a host binds: [k: the Go type, and n, s, b, ss or elems: its value]
HostInt(k, n) == [k |-> k, n |-> n]
HostString(tt) == [k |-> "string", s |-> tt]
HostBool(b) == [k |-> "bool", b |-> b]
HostStrings(ss) == [k |-> "[]string", ss |-> ss]
HostList(elems) == [k |-> "[]interface{}", elems |-> elems]
HostNil == [k |-> "nil"]
HostMap == [k |-> "map[string]int"]
HostInts == [k |-> "[]int"]

\* reflect.TypeOf(v).Kind(); TypeOf(nil) is nil and its Kind() panics
reflectKind(v) ==
    CASE v.k = "int" -> "Int"
      [] v.k = "int8" -> "Int8"
      [] v.k = "int16" -> "Int16"
      [] v.k = "int32" -> "Int32"
      [] v.k = "int64" -> "Int64"
      [] v.k = "uint" -> "Uint"
      [] v.k = "uint64" -> "Uint64"
      [] v.k = "float32" -> "Float32"
      [] v.k = "float64" -> "Float64"
      [] v.k = "string" -> "String"
      [] v.k = "bool" -> "Bool"
      [] v.k \in {"[]string", "[]interface{}", "[]int"} -> "Slice"
      [] OTHER -> "Map"

\* The strings of a []interface{}, the other elements dropped
RECURSIVE stringsOf(_)
stringsOf(elems) ==
    IF elems = <<>> THEN <<>>
    ELSE IF Head(elems).k = "string" THEN <<Head(elems).s>> \o stringsOf(Tail(elems))
    ELSE stringsOf(Tail(elems))

coerceInt64Unsupported(v, fv) ==
    IF v.k = "nil" THEN Crash(fv)
    ELSE LET kind == reflectKind(v)
         IN CASE kind \in {"Int", "Int32", "Float32", "Float64"} ->
                   Ret(NumberLiteral(v.n), "new", NoErr, fv)
              [] kind = "String" -> Ret(StringLiteral(v.s), "new", NoErr, fv)
              [] kind = "Bool" -> Ret(BooleanLiteral(v.b), "new", NoErr, fv)
              [] kind = "Slice" /\ v.k = "[]interface{}" ->
                   Ret(SliceStringLiteral(stringsOf(v.elems)), "new", NoErr, fv)
              [] kind = "Slice" /\ v.k = "[]string" ->
                   Ret(SliceStringLiteral(v.ss), "new", NoErr, fv)
              [] OTHER -> RetFalseExpr("Unsupported argument type", fv)

\* The kind switch of evaluateSubtree (src/evaluator.go) on a bound value
coerce(v, fv) ==
    IF v.k = "nil" THEN Crash(fv)
    ELSE LET kind == reflectKind(v)
         IN CASE kind \in {"Int", "Int32", "Int64", "Float32", "Float64"} ->
                   Ret(NumberLiteral(v.n), "new", NoErr, fv)
              [] kind = "String" -> Ret(StringLiteral(v.s), "new", NoErr, fv)
              [] kind = "Bool" -> Ret(BooleanLiteral(v.b), "new", NoErr, fv)
              [] kind = "Slice" /\ v.k = "[]interface{}" ->
                   Ret(SliceStringLiteral(stringsOf(v.elems)), "new", NoErr, fv)
              [] kind = "Slice" /\ v.k = "[]string" ->
                   Ret(SliceStringLiteral(v.ss), "new", NoErr, fv)
              [] OTHER -> RetFalseExpr("Unsupported argument type", fv)

\* The kind switch of evaluateSubtree (src/unnamed/part_000) on an argument
coerceLegacy(v, fv) ==
    IF v.k = "nil" THEN Crash(fv)
    ELSE LET kind == reflectKind(v)
         IN CASE kind \in {"Int", "Int32", "Int64", "Float32", "Float64"} ->
                   Ret(NumberLiteral(v.n), "new", NoErr, fv)
              [] kind = "String" -> Ret(StringLiteral(v.s), "new", NoErr, fv)
              [] kind = "Bool" -> Ret(BooleanLiteral(v.b), "new", NoErr, fv)
              [] OTHER -> RetFalseExpr("Unsupported argument type", fv)

resolveVarRefSilent(name, args, fv) ==
    IF name \notin DOMAIN args THEN RetFalseExpr(NoErr, fv)
    ELSE coerce(args[name], fv)

\* case *VarRef of evaluateSubtree (src/evaluator.go): args is a map
resolveVarRef(name, args, fv) ==
    IF name \notin DOMAIN args THEN RetFalseExpr("argument not found", fv)
    ELSE coerce(args[name], fv)

\* case *VarRef of evaluateSubtree (src/unnamed/part_000): args is a list,
\* indexed from 0; a negative index is out of range (a panic)
resolveVarRefLegacy(name, args, fv) ==
    LET index == Atoi(RemoveChar(name, "$"))
    IN IF ~index.ok THEN RetFalseExpr("Failed to resolve argument index", fv)
       ELSE IF index.v >= Len(args) THEN RetFalseExpr("Not enough arguments provided", fv)
       ELSE IF index.v < 0 THEN Crash(fv)
       ELSE coerceLegacy(args[index.v + 1], fv)

\* evaluateSubtree; api is "named" (src/evaluator.go) or "legacy"
\* (src/unnamed/part_000), which differ in the VarRef case and in the
\* operators applyOperator knows
RECURSIVE evaluateSubtree(_, _, _, _)
evaluateSubtreeParenOpaque(api, e, args, fv) ==
    CASE e.node = "nil" -> RetFalseExpr("Provided expression is nil", fv)
      [] e.node = "BinaryExpr" ->
           LET lv == evaluateSubtree(api, e.LHS, args, fv)
           IN IF lv.panic THEN lv
              ELSE IF lv.err # NoErr THEN RetFalseExpr(lv.err, lv.fv)
              ELSE LET rv == evaluateSubtree(api, e.RHS, args, lv.fv)
                   IN IF rv.panic THEN rv
                      ELSE IF rv.err # NoErr THEN RetFalseExpr(rv.err, rv.fv)
                      ELSE IF api = "named"
                      THEN applyOperator(e.Op, lv.expr, rv.expr, rv.fv)
                      ELSE applyOperatorLegacy(e.Op, lv.expr, rv.expr, rv.fv)
      [] e.node = "VarRef" ->
           IF api = "named" THEN resolveVarRef(e.Val, args, fv)
           ELSE resolveVarRefLegacy(e.Val, args, fv)
      [] OTHER -> Ret(e, "ast", NoErr, fv)

\* evaluateSubtree with an OR whose left operand is true and an AND whose left
\* operand is false decided without the right operand
evaluateSubtreeShortCircuit(api, e, args, fv) ==
    CASE e.node = "nil" -> RetFalseExpr("Provided expression is nil", fv)
      [] e.node = "ParenExpr" -> evaluateSubtree(api, e.Expr, args, fv)
      [] e.node = "BinaryExpr" ->
           LET lv == evaluateSubtree(api, e.LHS, args, fv)
           IN IF lv.panic THEN lv
              ELSE IF lv.err # NoErr THEN RetFalseExpr(lv.err, lv.fv)
              ELSE IF e.Op = "OR" /\ lv.expr = BooleanLiteral(TRUE) THEN RetNew(TRUE, NoErr, lv.fv)
              ELSE IF e.Op = "AND" /\ lv.expr = BooleanLiteral(FALSE) THEN RetNew(FALSE, NoErr, lv.fv)
              ELSE LET rv == evaluateSubtree(api, e.RHS, args, lv.fv)
                   IN IF rv.panic THEN rv
                      ELSE IF rv.err # NoErr THEN RetFalseExpr(rv.err, rv.fv)
                      ELSE IF api = "named"
                      THEN applyOperator(e.Op, lv.expr, rv.expr, rv.fv)
                      ELSE applyOperatorLegacy(e.Op, lv.expr, rv.expr, rv.fv)
      [] e.node = "VarRef" ->
           IF api = "named" THEN resolveVarRef(e.Val, args, fv)
           ELSE resolveVarRefLegacy(e.Val, args, fv)
      [] OTHER -> Ret(e, "ast", NoErr, fv)

evaluateSubtree(api, e, args, fv) ==
    CASE e.node = "nil" -> RetFalseExpr("Provided expression is nil", fv)
      [] e.node = "ParenExpr" -> evaluateSubtree(api, e.Expr, args, fv)
      [] e.node = "BinaryExpr" ->
           LET lv == evaluateSubtree(api, e.LHS, args, fv)
           IN IF lv.panic THEN lv
              ELSE IF lv.err # NoErr THEN RetFalseExpr(lv.err, lv.fv)
              ELSE LET rv == evaluateSubtree(api, e.RHS, args, lv.fv)
                   IN IF rv.panic THEN rv
                      ELSE IF rv.err # NoErr THEN RetFalseExpr(rv.err, rv.fv)
                      ELSE IF api = "named"
                      THEN applyOperator(e.Op, lv.expr, rv.expr, rv.fv)
                      ELSE applyOperatorLegacy(e.Op, lv.expr, rv.expr, rv.fv)
      [] e.node = "VarRef" ->
           IF api = "named" THEN resolveVarRef(e.Val, args, fv)
           ELSE resolveVarRefLegacy(e.Val, args, fv)
      [] OTHER -> Ret(e, "ast", NoErr, fv)

EvaluateNonBooleanIsFalse(api, e, args, fv) ==
    IF e.node = "nil" THEN [panic |-> FALSE, b |-> FALSE, err |-> "Provided expression is nil", fv |-> fv]
    ELSE LET r == evaluateSubtree(api, e, args, fv)
         IN IF r.panic THEN [panic |-> TRUE, b |-> FALSE, err |-> "panic", fv |-> r.fv]
            ELSE IF r.err # NoErr
            THEN [panic |-> FALSE, b |-> FALSE, err |-> r.err, fv |-> r.fv]
            ELSE IF r.expr.node = "BooleanLiteral"
            THEN [panic |-> FALSE, b |-> r.expr.Val, err |-> NoErr, fv |-> r.fv]
            ELSE [panic |-> FALSE, b |-> FALSE, err |-> NoErr, fv |-> r.fv]

EvaluateKeepsValue(api, e, args, fv) ==
    IF e.node = "nil" THEN [panic |-> FALSE, b |-> FALSE, err |-> "Provided expression is nil", fv |-> fv]
    ELSE LET r == evaluateSubtree(api, e, args, fv)
         IN IF r.panic THEN [panic |-> TRUE, b |-> FALSE, err |-> "panic", fv |-> r.fv]
            ELSE IF r.expr.node = "BooleanLiteral"
            THEN [panic |-> FALSE, b |-> r.expr.Val, err |-> r.err, fv |-> r.fv]
            ELSE [panic |-> FALSE, b |-> FALSE,
                  err |-> IF r.err # NoErr THEN r.err ELSE "Unexpected result of the root expression",
                  fv |-> r.fv]

\* Evaluate, of both generations: (bool, error), or a panic
EvaluateExpr(api, e, args, fv) ==
    IF e.node = "nil" THEN [panic |-> FALSE, b |-> FALSE, err |-> "Provided expression is nil", fv |-> fv]
    ELSE LET r == evaluateSubtree(api, e, args, fv)
         IN IF r.panic THEN [panic |-> TRUE, b |-> FALSE, err |-> "panic", fv |-> r.fv]
            ELSE IF r.err # NoErr
            THEN [panic |-> FALSE, b |-> FALSE, err |-> r.err, fv |-> r.fv]
            ELSE IF r.expr.node = "BooleanLiteral"
            THEN [panic |-> FALSE, b |-> r.expr.Val, err |-> NoErr, fv |-> r.fv]
            ELSE [panic |-> FALSE, b |-> FALSE,
                  err |-> "Unexpected result of the root expression", fv |-> r.fv]

\* Expr.Args(): the names the tree references, in the order of the text,
\* repeated as often as they occur
RECURSIVE Args(_)
Args(e) ==
    CASE e.node = "VarRef" -> <<e.Val>>
      [] e.node = "ParenExpr" -> Args(e.Expr)
      [] e.node = "BinaryExpr" -> Args(e.LHS) \o Args(e.RHS)
      [] OTHER -> <<>>

----------------------------------------------------------------------------
(* Inputs and bindings *)

MaxLen == 3
MaxOps == 3
MaxArgs == 2

T_true == Ident(<<"t","r","u","e">>)
T_false == Ident(<<"f","a","l","s","e">>)
T_AND == Ident(W_AND)
T_OR == Ident(W_OR)
T_x == Ident(<<"x">>)
T_1 == IntTok(<<"1">>)
T_2 == IntTok(<<"2">>)
T_a == StringTok(<<"a">>)

\* Every token sequence of at most MaxLen tokens over these
Alphabet ==
    {T_true, T_AND, T_x, Ch("("), Ch(")"), Ch("["), Ch("]"), Ch("/"), Ch(","),
     Ch("="), T_1, T_a}
ShortInputs == UNION {[1..n -> Alphabet] : n \in 0..MaxLen}

\* x1 op1 x2 ... opn x(n+1): boolean literals and the operators of booleans
BoolOperands == {T_true, T_false}
BoolOperators == {T_AND, T_OR, Ident(W_XOR), Ident(W_NAND)}
Chain(operands, ops) ==
    [i \in 1..(2 * Len(ops) + 1) |->
        IF i % 2 = 1 THEN operands[(i + 1) \div 2] ELSE ops[i \div 2]]
BoolChains ==
    UNION {{Chain(xs, os) : xs \in [1..(n + 1) -> BoolOperands], os \in [1..n -> BoolOperators]}
           : n \in 1..MaxOps}

\* a > b, a > b AND c > d, a > b AND c > d OR e > f, ...
Comparison(a, b) == <<a, Ch(">"), b>>
Numbers == {T_1, T_2}
Comparisons == {Comparison(a, b) : a \in Numbers, b \in Numbers}
Joiners == {T_AND, T_OR}
ComparisonChains ==
    Comparisons
    \cup {c1 \o <<j1>> \o c2 : c1 \in Comparisons, c2 \in Comparisons, j1 \in Joiners}
    \cup {c1 \o <<j1>> \o c2 \o <<j2>> \o c3 :
            c1 \in Comparisons, c2 \in Comparisons, c3 \in Comparisons,
            j1 \in Joiners, j2 \in Joiners}

\* operand operator operand, over operands of every kind and every operator
Var(tok) == <<Ch("["), tok, Ch("]")>>
Positional(digit) == <<Ch("$"), IntTok(<<digit>>)>>
OperandTexts ==
    {Var(T_x), Positional("0"), <<T_1>>, <<T_2>>, <<T_a>>, <<T_true>>,
     <<Ch("["), T_1, Ch(","), T_2, Ch("]")>>,
     <<Ch("["), T_a, Ch(","), StringTok(<<"b">>), Ch("]")>>,
     <<Ch("/"), Ident(<<"a">>), Ch("/")>>,
     <<Ch("/"), Ch("("), Ch("/")>>}
OperatorTexts ==
    {<<T_AND>>, <<T_OR>>, <<Ident(W_XOR)>>, <<Ident(W_NAND)>>,
     <<Ch("="), Ch("=")>>, <<Ch("!"), Ch("=")>>, <<Ch("<")>>, <<Ch("<"), Ch("=")>>,
     <<Ch(">")>>, <<Ch(">"), Ch("=")>>, <<Ident(<<"i","n">>)>>,
     <<Ident(<<"n","o","t">>), Ident(<<"i","n">>)>>,
     <<Ch("="), Ch("~")>>, <<Ch("!"), Ch("~")>>,
     <<Ident(<<"i","n","t","e","r","s","e","c","t","s">>)>>, <<Ident(<<"h","a","s">>)>>}
BinaryInputs ==
    {l \o op \o r : l \in OperandTexts, op \in OperatorTexts, r \in OperandTexts}

\* (a OR b) AND c, a OR (b AND c), and (P) AND (Q) AND $3 == false of the README
ParenInputs ==
    {<<Ch("("), a, T_OR, b, Ch(")"), T_AND, c>> : a \in BoolOperands, b \in BoolOperands, c \in BoolOperands}
    \cup {<<a, T_OR, Ch("("), b, T_AND, c, Ch(")")>> : a \in BoolOperands, b \in BoolOperands, c \in BoolOperands}
    \cup {<<Ch("("), a, Ch(")"), T_AND, Ch("("), b, Ch(")"), T_AND>> \o Positional("3")
            \o <<Ch("="), Ch("="), T_false>> : a \in BoolOperands, b \in BoolOperands}

\* Inputs of src/parser_test.go and of the text of the claims
T_var0 == Ident(<<"v","a","r","0">>)
T_DEMO == Ident(<<"D","E","M","O">>)
ListedInputs ==
    {<<Ch("["), Ch("]"), T_AND, T_true>>,
     <<Ident(<<"A">>)>>,
     Var(T_var0) \o <<Ch("="), Ch("="), T_DEMO>>,
     <<Ch("!")>> \o Var(T_var0),
     \* the back quote is a character token (raw strings are not scanned)
     Var(T_var0) \o <<Ch("<"), Ch(">"), Ch("BACKQUOTE"), T_DEMO, Ch("BACKQUOTE")>>,
     <<T_true>> \o Var(T_x),
     <<Ch("("), T_true>> \o Var(T_x) \o <<Ch(")")>>,
     <<T_true, Ch("-"), T_1>>,
     <<Ch("["), T_a, Ch(","), T_1, Ch("]")>>,
     <<Ch("["), T_1, Ch(","), T_a, Ch("]")>>,
     <<Ident(<<"P","0">>)>>,
     Positional("5"),
     Positional("0") \o <<T_AND>> \o Positional("1"),
     <<T_true, T_OR>> \o Var(T_x),
     <<T_false, T_AND>> \o Var(T_x),
     \* references that repeat: [x] == $0 OR $0 == [x]
     Var(T_x) \o <<Ch("="), Ch("=")>> \o Positional("0") \o <<T_OR>>
        \o Positional("0") \o <<Ch("="), Ch("=")>> \o Var(T_x)}

Inputs == ShortInputs \cup BoolChains \cup ComparisonChains \cup BinaryInputs
          \cup ParenInputs \cup ListedInputs

\* The values the bindings of the model hold
Values ==
    {HostBool(TRUE), HostBool(FALSE), HostInt("int", 1), HostInt("float64", 2),
     HostString(<<"a">>), HostString(<<"t","r","u","e">>),
     HostStrings(<<<<"a">>, <<"b">>>>), HostStrings(<<<<"c">>>>),
     HostList(<<HostString(<<"a">>), HostInt("int", 1)>>),
     HostInt("int8", 1), HostInt("int64", 2), HostNil, HostMap, HostInts}
LegacyValues == {HostBool(TRUE), HostInt("int", 1), HostString(<<"a">>)}

Range(seq) == {seq[i] : i \in 1..Len(seq)}

\* The binding maps Evaluate is called with: the names a tree does not
\* reference are never looked up, so every map over the names it references
ArgSets(e) == UNION {[D -> Values] : D \in SUBSET Range(Args(e))}

\* The argument lists the positional Evaluate is called with
LegacyArgSets(e) ==
    IF Args(e) = <<>> THEN {<<>>}
    ELSE UNION {[1..n -> LegacyValues] : n \in 0..MaxArgs}

----------------------------------------------------------------------------
(* The calls of Evaluate on the tree Parse returned *)

Called(api, args, r) ==
    [called |-> api, args |-> args, b |-> r.b, err |-> r.err, panic |-> r.panic]

\* Evaluate(expr, args) of src/evaluator.go
Evaluate ==
    /\ pc = "done"
    /\ \E args \in ArgSets(ast) :
         LET r == EvaluateExpr("named", ast, args, falseExpr)
         IN /\ result' = Called("named", args, r)
            /\ falseExpr' = r.fv
            /\ pc' = IF r.panic THEN "panic" ELSE pc
    /\ UNCHANGED <<calls, names, src, parser, stack, ret, ast, parseErr>>

\* Evaluate(expr, args...) of src/unnamed/part_000
EvaluateLegacy ==
    /\ pc = "done"
    /\ \E args \in LegacyArgSets(ast) :
         LET r == EvaluateExpr("legacy", ast, args, falseExpr)
         IN /\ result' = Called("legacy", args, r)
            /\ falseExpr' = r.fv
            /\ pc' = IF r.panic THEN "panic" ELSE pc
    /\ UNCHANGED <<calls, names, src, parser, stack, ret, ast, parseErr>>

----------------------------------------------------------------------------
(* Variables *)

\* removeDuplicates: the loop over a, with the result and the seen map so far
RECURSIVE removeDuplicatesLoop(_, _, _, _)
removeDuplicatesLoop(a, i, res, seen) ==
    IF i > Len(a) THEN res
    ELSE IF a[i] \notin seen
    THEN removeDuplicatesLoop(a, i + 1, Append(res, a[i]), seen \cup {a[i]})
    ELSE removeDuplicatesLoop(a, i + 1, res, seen)

removeDuplicatesKeepLast(a) ==
    LET kept == SelectSeq([i \in 1..Len(a) |-> i],
                          LAMBDA i : \A j \in (i + 1)..Len(a) : a[j] # a[i])
    IN [k \in 1..Len(kept) |-> a[kept[k]]]

\* removeDuplicates
removeDuplicates(a) == removeDuplicatesLoop(a, 1, <<>>, {})

\* Variables(expression)
Variables(expression) == removeDuplicates(Args(expression))

NoNames == [called |-> FALSE, v |-> <<>>]

\* A call of Variables on the tree Parse returned; on the nil Expr the method
\* call expression.Args() panics
CallVariables ==
    /\ pc = "done"
    /\ IF ast.node = "nil"
       THEN pc' = "panic" /\ UNCHANGED names
       ELSE pc' = pc /\ names' = [called |-> TRUE, v |-> Variables(ast)]
    /\ UNCHANGED <<calls, src, parser, stack, ret, ast, parseErr, result, falseExpr>>

----------------------------------------------------------------------------
(* Evaluate calls that run at the same time on the tree Parse returned: each
   call reduces the tree node by node, and between two reductions of one
   call the other calls take their steps *)

Callers == {1, 2}

\* what a call has reduced a subtree to: the literal and what it points at
Done(e, alias) == [node |-> "Done", expr |-> e, alias |-> alias]

\* the literal an operand pointer is read as: falseExpr is read when used
Operand(d, fv) == IF d.alias = "falseExpr" THEN BooleanLiteral(fv) ELSE d.expr

Reduced(h) == [t |-> Done(h.expr, h.alias), fv |-> h.fv, err |-> h.err, panic |-> h.panic]

\* evaluateSubtree, one node: the next node in the order of evaluation (left
\* operand, right operand, operator) is reduced
RECURSIVE reduceNext(_, _, _)
reduceNext(t, args, fv) ==
    CASE t.node = "ParenExpr" ->
           LET r == reduceNext(t.Expr, args, fv)
           IN [r EXCEPT !.t = IF r.t.node = "Done" THEN r.t ELSE ParenExpr(r.t)]
      [] t.node = "BinaryExpr" ->
           IF t.LHS.node # "Done"
           THEN LET r == reduceNext(t.LHS, args, fv)
                IN [r EXCEPT !.t = BinaryExpr(r.t, t.Op, t.RHS)]
           ELSE IF t.RHS.node # "Done"
           THEN LET r == reduceNext(t.RHS, args, fv)
                IN [r EXCEPT !.t = BinaryExpr(t.LHS, t.Op, r.t)]
           ELSE Reduced(applyOperator(t.Op, Operand(t.LHS, fv), Operand(t.RHS, fv), fv))
      [] t.node = "VarRef" -> Reduced(resolveVarRef(t.Val, args, fv))
      [] OTHER -> Reduced(Ret(t, "ast", NoErr, fv))

Idle == [at |-> "idle", args |-> <<>>, t |-> Nil, b |-> FALSE, err |-> NoErr]

\* Evaluate(expr, args), entered by caller p with its own map
Call(p) ==
    /\ pc = "done"
    /\ calls[p].at = "idle"
    /\ \E args \in ArgSets(ast) :
         calls' = [calls EXCEPT ![p] =
                     IF ast.node = "nil"
                     THEN [Idle EXCEPT !.at = "returned", !.args = args,
                                       !.err = "Provided expression is nil"]
                     ELSE [Idle EXCEPT !.at = "running", !.args = args, !.t = ast]]
    /\ UNCHANGED <<names, src, parser, stack, ret, pc, ast, parseErr, result, falseExpr>>

\* One reduction of caller p's evaluateSubtree; an error ends the call with
\* (false, error), a panic ends the program
Reduce(p) ==
    /\ pc = "done"
    /\ calls[p].at = "running"
    /\ calls[p].t.node # "Done"
    /\ LET r == reduceNext(calls[p].t, calls[p].args, falseExpr)
       IN /\ falseExpr' = r.fv
          /\ pc' = IF r.panic THEN "panic" ELSE pc
          /\ calls' = [calls EXCEPT ![p] =
                         IF r.panic THEN [@ EXCEPT !.at = "panicked"]
                         ELSE IF r.err # NoErr
                         THEN [@ EXCEPT !.at = "returned", !.b = FALSE, !.err = r.err]
                         ELSE [@ EXCEPT !.t = r.t]]
    /\ UNCHANGED <<names, src, parser, stack, ret, ast, parseErr, result>>

\* The end of caller p's Evaluate: the root literal is read and returned
Return(p) ==
    /\ pc = "done"
    /\ calls[p].at = "running"
    /\ calls[p].t.node = "Done"
    /\ LET n == Operand(calls[p].t, falseExpr)
       IN calls' = [calls EXCEPT ![p] =
                      IF n.node = "BooleanLiteral"
                      THEN [@ EXCEPT !.at = "returned", !.b = n.Val]
                      ELSE [@ EXCEPT !.at = "returned",
                                     !.err = "Unexpected result of the root expression"]]
    /\ UNCHANGED <<names, src, parser, stack, ret, pc, ast, parseErr, result, falseExpr>>

----------------------------------------------------------------------------
(* The specification *)

NewParserState == [s |-> 0, buf |-> [tok |-> "NUL", tt |-> <<>>, n |-> 0]]

\* NewParser(r): a parser on the tokens of r, nothing read yet
InitOn(inputs) ==
    /\ src \in inputs
    /\ parser = NewParserState
    /\ stack = <<>>
    /\ ret = RetExpr(Nil, NoErr)
    /\ pc = "init"
    /\ ast = Nil
    /\ parseErr = NoErr
    /\ result = NoResult
    /\ falseExpr = FALSE
    /\ calls = [p \in Callers |-> Idle]
    /\ names = NoNames

Next ==
    \/ Parse
    \/ ScanWithMapping
    \/ ScanArray
    \/ ScanArrayTest
    \/ ScanPattern
    \/ ScanPatternTest
    \/ ParseUnaryTok
    \/ ParseUnaryInner
    \/ ParseUnaryRparen
    \/ ParseExprUnary
    \/ ParseExprOp
    \/ ParseExprRhs
    \/ ParseReturn
    \/ Evaluate
    \/ EvaluateLegacy
    \/ CallVariables

Init == InitOn(Inputs)

Spec == Init /\ [][Next]_vars

\* Parse and Evaluate are plain sequential code: a call that can take a step
\* takes it
FairInit == InitOn(ShortInputs \cup ListedInputs)

FairSpec == FairInit /\ [][Next]_vars /\ WF_vars(Next)

\* The inputs whose trees the concurrent calls evaluate: one operator between
\* a reference or a literal and a literal, and a comparison under an operator
ConcurrentInputs ==
    {l \o op \o r : l \in {Var(T_x), <<T_1>>, <<T_a>>},
                    op \in OperatorTexts,
                    r \in OperandTexts \ {Positional("0")}}
    \cup {<<Ch("(")>> \o Var(T_x) \o op \o <<T_1, Ch(")"), T_OR, T_true>> :
             op \in {<<Ch("="), Ch("=")>>, <<Ch("!"), Ch("=")>>}}
    \cup {<<>>}

ConcurrentNext ==
    \/ Parse
    \/ ScanWithMapping
    \/ ScanArray
    \/ ScanArrayTest
    \/ ScanPattern
    \/ ScanPatternTest
    \/ ParseUnaryTok
    \/ ParseUnaryInner
    \/ ParseUnaryRparen
    \/ ParseExprUnary
    \/ ParseExprOp
    \/ ParseExprRhs
    \/ ParseReturn
    \/ \E p \in Callers : Call(p)
    \/ \E p \in Callers : Reduce(p)
    \/ \E p \in Callers : Return(p)

ConcurrentSpec == InitOn(ConcurrentInputs) /\ [][ConcurrentNext]_vars

----------------------------------------------------------------------------
(* The standard reading of an unparenthesized chain x1 op1 x2 ... opn x(n+1) *)

Evaluated(api) == result.called = api /\ ~result.panic
ParsedOk == pc = "done" /\ parseErr = NoErr

ChainOperands == {T_true, T_false, T_1, T_2}
IsChainOver(s, opToks) ==
    /\ Len(s) >= 3 /\ Len(s) % 2 = 1
    /\ \A i \in 1..Len(s) : IF i % 2 = 1 THEN s[i] \in ChainOperands ELSE s[i] \in opToks

OperandOf(tok) ==
    CASE tok = T_true -> BooleanLiteral(TRUE)
      [] tok = T_false -> BooleanLiteral(FALSE)
      [] tok = T_1 -> NumberLiteral(1)
      [] tok = T_2 -> NumberLiteral(2)
OperatorOf(tok) ==
    CASE tok = T_AND -> "AND"
      [] tok = T_OR -> "OR"
      [] tok = Ident(W_XOR) -> "XOR"
      [] tok = Ident(W_NAND) -> "NAND"
      [] tok = Ch(">") -> "GT"
StdLevel(op) ==
    CASE op = "OR" -> 1
      [] op \in {"AND", "XOR", "NAND"} -> 2
      [] OTHER -> 3

\* The fully parenthesized tree: the last operator of the lowest level splits
\* the chain, its left side at the same level (left-associative), its right
\* side at the next
RECURSIVE StdTree(_, _)
StdTree(s, level) ==
    IF Len(s) = 1 THEN OperandOf(s[1])
    ELSE LET at == {i \in 1..Len(s) : i % 2 = 0 /\ StdLevel(OperatorOf(s[i])) = level}
             k == CHOOSE i \in at : \A j \in at : j <= i
         IN IF at = {} THEN StdTree(s, level + 1)
            ELSE BinaryExpr(StdTree(SubSeq(s, 1, k - 1), level), OperatorOf(s[k]),
                            StdTree(SubSeq(s, k + 1, Len(s)), level + 1))

StandardReading(s) == EvaluateExpr("named", StdTree(s, 1), <<>>, FALSE)

BoolApply(op, a, b) ==
    CASE op = "AND" -> a /\ b
      [] op = "OR" -> a \/ b
      [] op = "XOR" -> a # b
      [] op = "NAND" -> ~(a /\ b)
BoolTok(b) == IF b THEN T_true ELSE T_false

----------------------------------------------------------------------------
(* Claims *)

\* C1: an unparenthesized chain of operands joined by OR, AND and comparison
\* operators evaluates to what its fully parenthesized standard reading
\* (comparisons tighter than AND, AND tighter than OR) evaluates to.
C1_StandardPrecedence ==
    (Evaluated("named") /\ parseErr = NoErr /\ IsChainOver(src, {T_AND, T_OR, Ch(">")}))
        => /\ result.b = StandardReading(src).b
           /\ (result.err = NoErr) = (StandardReading(src).err = NoErr)

\* C2: with booleans a, b, c, "a OR b AND c" evaluates to a or (b and c), as
\* "a OR (b AND c)" does; "(a OR b) AND c" evaluates to (a or b) and c; and
\* "a AND b OR c" to (a and b) or c; all without an error.
C2_TwoOperators ==
    Evaluated("named") =>
        \A a \in BOOLEAN, b \in BOOLEAN, c \in BOOLEAN :
            LET A == BoolTok(a)
                B == BoolTok(b)
                C == BoolTok(c)
            IN /\ src \in {<<A, T_OR, B, T_AND, C>>, <<A, T_OR, Ch("("), B, T_AND, C, Ch(")")>>}
                    => (result.err = NoErr /\ result.b = (a \/ (b /\ c)))
               /\ src = <<Ch("("), A, T_OR, B, Ch(")"), T_AND, C>>
                    => (result.err = NoErr /\ result.b = ((a \/ b) /\ c))
               /\ src = <<A, T_AND, B, T_OR, C>>
                    => (result.err = NoErr /\ result.b = ((a /\ b) \/ c))

\* C2's case: "false OR true AND false" was parsed and evaluated to false
C2_Witness ==
    /\ Evaluated("named")
    /\ src = <<T_false, T_OR, T_true, T_AND, T_false>>
    /\ ast = BinaryExpr(BooleanLiteral(FALSE), "OR",
                        BinaryExpr(BooleanLiteral(TRUE), "AND", BooleanLiteral(FALSE)))
    /\ result.b = FALSE /\ result.err = NoErr

\* C3: "a op1 b op2 c" with op1 and op2 of one precedence level (OR with OR;
\* any two of AND, XOR, NAND) evaluates to (a op1 b) op2 c.
C3_LeftAssociative ==
    (Evaluated("named") /\ Len(src) = 5 /\ IsChainOver(src, BoolOperators)
       /\ StdLevel(OperatorOf(src[2])) = StdLevel(OperatorOf(src[4])))
        => /\ result.err = NoErr
           /\ result.b = BoolApply(OperatorOf(src[4]),
                             BoolApply(OperatorOf(src[2]), src[1] = T_true, src[3] = T_true),
                             src[5] = T_true)

\* C4: Parse returns no error only when nothing but end-of-input follows the
\* expression it parsed.
C4_WholeInput ==
    ParsedOk => scan(parser).t = "EOF"

\* C5: Parse returns a nil error with an expression or an error with a nil
\* expression, and the inputs with a missing ")", with an operator without
\* operand, the empty input and the inputs whose operand is no operand give
\* an error.
InvalidInputs ==
    {<<>>,
     <<Ch("("), T_true>>,
     <<T_true, T_AND>>,
     <<Ident(<<"A">>)>>,
     Var(T_var0) \o <<Ch("="), Ch("="), T_DEMO>>,
     <<Ch("!")>> \o Var(T_var0),
     Var(T_var0) \o <<Ch("<"), Ch(">"), Ch("BACKQUOTE"), T_DEMO, Ch("BACKQUOTE")>>}
C5_NoPartialAST ==
    pc = "done" =>
        /\ \/ parseErr = NoErr /\ ast.node # "nil"
           \/ parseErr # NoErr /\ ast.node = "nil"
        /\ src \in InvalidInputs => parseErr # NoErr

\* C5's case: "( true" was parsed to the error of the missing ")"
C5_Witness ==
    /\ pc = "done"
    /\ src = <<Ch("("), T_true>>
    /\ parseErr = "Missing )"
    /\ ast = Nil

\* C6: on "[] AND true", on a "[" that no "]" follows and on a "/" that no
\* second "/" follows, Parse eventually returns an error.
UnclosedInputs ==
    {s \in ShortInputs \cup ListedInputs :
        \/ s = <<Ch("["), Ch("]"), T_AND, T_true>>
        \/ Len(s) >= 1 /\ s[1] = Ch("[") /\ \A i \in 2..Len(s) : s[i] # Ch("]")
        \/ Len(s) >= 1 /\ s[1] = Ch("/") /\ \A i \in 2..Len(s) : s[i] # Ch("/")}
C6_ParseTerminates ==
    (src \in UnclosedInputs) ~> (pc = "done" /\ parseErr # NoErr)

----------------------------------------------------------------------------
(* The operands a root == or != is applied to, and the references an
   evaluation resolves *)

Scalars == {"StringLiteral", "NumberLiteral", "BooleanLiteral"}

LeftOperand == evaluateSubtree("named", ast.LHS, result.args, FALSE)
RightOperand == evaluateSubtree("named", ast.RHS, result.args, FALSE)

\* Evaluate applied op at the root to two operands that reduced to literals
RootApplied(op) ==
    /\ Evaluated("named")
    /\ ast.node = "BinaryExpr" /\ ast.Op = op
    /\ ~LeftOperand.panic /\ LeftOperand.err = NoErr
    /\ ~RightOperand.panic /\ RightOperand.err = NoErr

\* name is bound to nothing: no key of the map, no index of the list
Absent(api, name, args) ==
    IF api = "named" THEN name \notin DOMAIN args
    ELSE LET index == Atoi(RemoveChar(name, "$"))
         IN index.ok /\ index.v >= Len(args)

\* no evaluation of e dereferences nil: e applies no NOT IN and no !~, and
\* the names it references are absent or bound to a value with a type
RECURSIVE Harmless(_, _, _)
Harmless(api, e, args) ==
    CASE e.node = "VarRef" ->
           \/ Absent(api, e.Val, args)
           \/ IF api = "named" THEN args[e.Val].k # "nil"
              ELSE LET index == Atoi(RemoveChar(e.Val, "$"))
                   IN ~index.ok \/ (index.v >= 0 /\ args[index.v + 1].k # "nil")
      [] e.node = "ParenExpr" -> Harmless(api, e.Expr, args)
      [] e.node = "BinaryExpr" ->
           /\ e.Op \notin {"NOTIN", "NEREG"}
           /\ Harmless(api, e.LHS, args) /\ Harmless(api, e.RHS, args)
      [] OTHER -> TRUE

\* the evaluation of e comes to a reference that is absent
RECURSIVE ResolvesAbsent(_, _, _)
ResolvesAbsent(api, e, args) ==
    CASE e.node = "VarRef" -> Absent(api, e.Val, args)
      [] e.node = "ParenExpr" -> ResolvesAbsent(api, e.Expr, args)
      [] e.node = "BinaryExpr" ->
           \/ ResolvesAbsent(api, e.LHS, args)
           \/ Harmless(api, e.LHS, args) /\ ResolvesAbsent(api, e.RHS, args)
      [] OTHER -> FALSE

\* C7, as the specification states it: == applied to two reduced operands
\* returns no error, and false when the operands are of different kinds.
C7_EQNeverErrors ==
    RootApplied("EQ") =>
        /\ result.err = NoErr
        /\ LeftOperand.expr.node # RightOperand.expr.node => result.b = FALSE

\* C7, amended: == applied to a string, number or boolean on the left and an
\* operand of the same kind on the right returns their equality and no error;
\* with an operand of another kind on the right it returns false and an
\* error; with any other left operand (a set) it returns false and no error.
C7_EQMismatchIsError ==
    RootApplied("EQ") =>
        IF LeftOperand.expr.node \in Scalars
        THEN IF RightOperand.expr.node = LeftOperand.expr.node
             THEN result.err = NoErr /\ result.b = (LeftOperand.expr.Val = RightOperand.expr.Val)
             ELSE result.err # NoErr /\ result.b = FALSE
        ELSE result.err = NoErr /\ result.b = FALSE

\* C7's case: [x] == true with x bound to the string "true" was evaluated
C7_Witness ==
    /\ RootApplied("EQ")
    /\ src = Var(T_x) \o <<Ch("="), Ch("="), T_true>>
    /\ result.args = (T_x.tt :> HostString(<<"t", "r", "u", "e">>))
    /\ result.b = FALSE
    /\ result.err = "Cannot compare string with non-string"

\* C8, as the specification states it: != applied to two reduced operands
\* that are not both strings, both numbers or both booleans returns true and
\* no error.
C8_NEQOfIncomparable ==
    (RootApplied("NEQ")
       /\ ~(LeftOperand.expr.node \in Scalars /\ RightOperand.expr.node = LeftOperand.expr.node))
        => result.b = TRUE /\ result.err = NoErr

\* C8, amended: != answers a mismatch as == does, not with its negation:
\* with a string, number or boolean on the left and an operand of the same
\* kind on the right it returns their inequality and no error; with an
\* operand of another kind on the right, false and an error; with any other
\* left operand (a set), false and no error.
C8_NEQMismatchIsFalse ==
    RootApplied("NEQ") =>
        IF LeftOperand.expr.node \in Scalars
        THEN IF RightOperand.expr.node = LeftOperand.expr.node
             THEN result.err = NoErr /\ result.b = (LeftOperand.expr.Val # RightOperand.expr.Val)
             ELSE result.err # NoErr /\ result.b = FALSE
        ELSE result.err = NoErr /\ result.b = FALSE

\* C8's case: [x] != 1 with x bound to a list of strings was evaluated
C8_Witness ==
    /\ RootApplied("NEQ")
    /\ src = Var(T_x) \o <<Ch("!"), Ch("="), T_1>>
    /\ result.args = (T_x.tt :> HostStrings(<<<<"a">>, <<"b">>>>))
    /\ LeftOperand.expr = SliceStringLiteral(<<<<"a">>, <<"b">>>>)
    /\ result.b = FALSE /\ result.err = NoErr

\* C9: an Evaluate that returns an error returns false with it, whatever the
\* tree (nil included), the bindings and the generation of the API.
C9_ErrorMeansFalse ==
    (result.called # "none" /\ ~result.panic /\ result.err # NoErr) => result.b = FALSE

\* C9's case: !~ of a pattern that does not compile handed Evaluate the
\* literal true together with the error
C9_Witness ==
    /\ Evaluated("named")
    /\ ast.node = "BinaryExpr" /\ ast.Op = "NEREG"
    /\ evaluateSubtree("named", ast, result.args, FALSE).expr = BooleanLiteral(TRUE)
    /\ evaluateSubtree("named", ast, result.args, FALSE).err # NoErr
    /\ result.err # NoErr /\ result.b = FALSE

\* C10: an evaluation that comes to a reference bound to nothing (a name that
\* is no key of the map; a position not below the number of arguments of the
\* positional API) returns false and an error, and does not panic.
C10_AbsentIsError ==
    /\ (result.called = "named" /\ ResolvesAbsent("named", ast, result.args))
          => (~result.panic /\ result.b = FALSE /\ result.err # NoErr)
    /\ (result.called = "legacy" /\ ResolvesAbsent("legacy", ast, result.args))
          => (~result.panic /\ result.b = FALSE /\ result.err # NoErr)

\* C10's case: [x] was evaluated with an empty map
C10_Witness ==
    /\ result.called = "named"
    /\ src = Var(T_x)
    /\ ast = VarRef(T_x.tt)
    /\ result.args = <<>>
    /\ result.b = FALSE /\ result.err # NoErr

----------------------------------------------------------------------------
(* Bound values *)

RECURSIVE Unparen(_)
Unparen(e) == IF e.node = "ParenExpr" THEN Unparen(e.Expr) ELSE e

\* Evaluate was called on a tree that is one reference, bound by the map
RootBound ==
    /\ result.called = "named"
    /\ Unparen(ast).node = "VarRef"
    /\ Unparen(ast).Val \in DOMAIN result.args
RootValue == result.args[Unparen(ast).Val]

UnsupportedTypes == {"nil", "map[string]int", "[]int"}
NumericTypes ==
    {"int", "int8", "int16", "int32", "int64", "uint", "uint64", "float32", "float64"}

\* C11: a reference bound to a value of a kind that is not supported (the
\* untyped nil, a map, a slice of non-strings) makes Evaluate return false
\* and an error, and does not panic.
C11_UnsupportedIsError ==
    (RootBound /\ RootValue.k \in UnsupportedTypes)
        => (~result.panic /\ result.b = FALSE /\ result.err # NoErr)

\* the bindings with every number bound as a float64 of the same value
AsFloat64(args) ==
    [n \in DOMAIN args |->
        IF args[n].k \in NumericTypes THEN HostInt("float64", args[n].n) ELSE args[n]]

AllBound(types) == \A n \in DOMAIN result.args : result.args[n].k \in types

\* C12, as the specification states it: a number bound as an integer,
\* unsigned or floating-point type of any width gives the result the same
\* number bound as float64 gives.
C12_AnyWidth ==
    (result.called = "named" /\ ast.node # "nil" /\ AllBound(NumericTypes))
        => LET r == EvaluateExpr("named", ast, AsFloat64(result.args), FALSE)
           IN /\ result.panic = r.panic
              /\ result.b = r.b
              /\ (result.err = NoErr) = (r.err = NoErr)

SupportedNumericTypes == {"int", "int32", "int64", "float32", "float64"}

\* C12, amended: a number bound as int, int32, int64, float32 or float64
\* gives the result the same number bound as float64 gives; a reference bound
\* to a number of any other type (int8, int16, the unsigned types) makes
\* Evaluate return false and an error.
C12_SupportedWidths ==
    /\ (result.called = "named" /\ ast.node # "nil" /\ AllBound(SupportedNumericTypes))
          => LET r == EvaluateExpr("named", ast, AsFloat64(result.args), FALSE)
             IN /\ result.panic = r.panic
                /\ result.b = r.b
                /\ result.err = r.err
    /\ (RootBound /\ RootValue.k \in NumericTypes \ SupportedNumericTypes)
          => (~result.panic /\ result.b = FALSE /\ result.err = "Unsupported argument type")

\* C12's case: [x] > 1 was evaluated with x bound to the int64 2
C12_Witness ==
    /\ result.called = "named"
    /\ src = Var(T_x) \o <<Ch(">"), T_1>>
    /\ result.args = (T_x.tt :> HostInt("int64", 2))
    /\ result.b = TRUE /\ result.err = NoErr

----------------------------------------------------------------------------
(* Kinds of operands *)

\* Evaluate came to apply op at the root to two operands reduced to literals
RootReduced(op) ==
    /\ result.called = "named"
    /\ ast.node = "BinaryExpr" /\ ast.Op = op
    /\ ~LeftOperand.panic /\ LeftOperand.err = NoErr
    /\ ~RightOperand.panic /\ RightOperand.err = NoErr

\* the kinds of operands the specification's operator table gives op
WellKinded(op, l, r) ==
    CASE op \in {"AND", "OR", "XOR", "NAND"} ->
           l.node = "BooleanLiteral" /\ r.node = "BooleanLiteral"
      [] op \in {"GT", "GTE", "LT", "LTE"} ->
           l.node = "NumberLiteral" /\ r.node = "NumberLiteral"
      [] op \in {"IN", "NOTIN"} ->
           \/ l.node = "StringLiteral" /\ r.node = "SliceStringLiteral"
           \/ l.node = "NumberLiteral" /\ r.node = "SliceNumberLiteral"
      [] op = "INTERSECTS" ->
           l.node = "SliceStringLiteral" /\ r.node = "SliceStringLiteral"
      [] op = "HAS" -> l.node = "SliceStringLiteral" /\ r.node = "StringLiteral"
      [] op \in {"EREG", "NEREG"} -> l.node = "StringLiteral" /\ r.node = "StringLiteral"

\* C13: an operator other than == and != applied to an operand that is not
\* of the kind it requires makes Evaluate return false and an error, and
\* does not panic.
C13_MismatchIsError ==
    \A op \in OperatorTokens \ {"EQ", "NEQ"} :
        (RootReduced(op) /\ ~WellKinded(op, LeftOperand.expr, RightOperand.expr))
            => (~result.panic /\ result.b = FALSE /\ result.err # NoErr)

\* C14: IN applied to a string and a set of strings, or to a number and a
\* set of numbers, returns whether the set holds the element, NOT IN applied
\* to the same operands returns the negation, both without error.
C14_Membership ==
    \A op \in {"IN", "NOTIN"} :
        (RootReduced(op) /\ WellKinded(op, LeftOperand.expr, RightOperand.expr))
            => /\ ~result.panic /\ result.err = NoErr
               /\ result.b = ((op = "IN") = (LeftOperand.expr.Val \in Range(RightOperand.expr.Val)))

\* C14's case: 1 NOT IN [1,2] was evaluated
C14_Witness ==
    /\ RootReduced("NOTIN")
    /\ src = <<T_1, Ident(<<"n","o","t">>), Ident(<<"i","n">>), Ch("["), T_1, Ch(","), T_2, Ch("]")>>
    /\ RightOperand.expr = SliceNumberLiteral(<<1, 2>>)
    /\ result.b = FALSE /\ result.err = NoErr /\ ~result.panic

----------------------------------------------------------------------------
(* Parentheses *)

\* e without any of its parentheses, and e with every subexpression in
\* parentheses
RECURSIVE StripParens(_)
StripParens(e) ==
    CASE e.node = "ParenExpr" -> StripParens(e.Expr)
      [] e.node = "BinaryExpr" -> BinaryExpr(StripParens(e.LHS), e.Op, StripParens(e.RHS))
      [] OTHER -> e
RECURSIVE WrapAll(_)
WrapAll(e) ==
    CASE e.node = "ParenExpr" -> ParenExpr(WrapAll(e.Expr))
      [] e.node = "BinaryExpr" -> ParenExpr(BinaryExpr(WrapAll(e.LHS), e.Op, WrapAll(e.RHS)))
      [] OTHER -> ParenExpr(e)

SameOutcome(r) ==
    /\ r.panic = result.panic
    /\ r.b = result.b
    /\ r.err = result.err

\* C15: Evaluate returns for a tree what it returns for the tree without its
\* parentheses, for the tree in parentheses, and for the tree with every
\* operand in parentheses, under the same bindings.
C15_ParenTransparent ==
    (result.called # "none" /\ ast.node # "nil") =>
        /\ SameOutcome(EvaluateExpr(result.called, StripParens(ast), result.args, FALSE))
        /\ SameOutcome(EvaluateExpr(result.called, ParenExpr(ast), result.args, FALSE))
        /\ SameOutcome(EvaluateExpr(result.called, WrapAll(ast), result.args, FALSE))

\* C15's case: (false OR true) AND true was evaluated
C15_Witness ==
    /\ Evaluated("named")
    /\ src = <<Ch("("), T_false, T_OR, T_true, Ch(")"), T_AND, T_true>>
    /\ ast.LHS.node = "ParenExpr"
    /\ result.b = TRUE /\ result.err = NoErr

----------------------------------------------------------------------------
(* Repeated calls *)

\* what a call of Evaluate returns on the tree Parse built, the shared false
\* literal being false
Alone(api, args) == EvaluateExpr(api, ast, args, FALSE)

\* C16: every call of Evaluate, after any calls before it, leaves the tree
\* and the shared false literal as they were and returns what the first call
\* with the same bindings returns.
C16_Deterministic ==
    [][(pc = "done" /\ result'.called # "none") =>
         /\ ast' = ast
         /\ falseExpr' = FALSE
         /\ result'.panic = Alone(result'.called, result'.args).panic
         /\ result'.b = Alone(result'.called, result'.args).b
         /\ result'.err = Alone(result'.called, result'.args).err]_vars

\* C16's case: [x] !~ /a/ was evaluated with x bound to "a": the literal
\* negated in place is not the shared one
C16_Witness ==
    /\ Evaluated("named")
    /\ src = Var(T_x) \o <<Ch("!"), Ch("~"), Ch("/"), Ident(<<"a">>), Ch("/")>>
    /\ result.args = (T_x.tt :> HostString(<<"a">>))
    /\ result.b = FALSE /\ result.err = NoErr
    /\ falseExpr = FALSE

----------------------------------------------------------------------------
(* Calls at the same time *)

\* C17: of Evaluate calls that interleave on one tree, each with its own
\* bindings, none writes the shared false literal, and each returns (or
\* panics) as it does when it runs alone.
C17_Interleaved ==
    /\ falseExpr = FALSE
    /\ \A p \in Callers :
          /\ calls[p].at = "returned"
                => /\ ~Alone("named", calls[p].args).panic
                   /\ calls[p].b = Alone("named", calls[p].args).b
                   /\ calls[p].err = Alone("named", calls[p].args).err
          /\ calls[p].at = "panicked" => Alone("named", calls[p].args).panic

\* C17's case: two calls of [x] NOT IN ["a","b"] ran at the same time, with
\* x bound to "a" and to "true", and each returned its own result
C17_Witness ==
    /\ src = Var(T_x) \o <<Ident(<<"n","o","t">>), Ident(<<"i","n">>),
                           Ch("["), T_a, Ch(","), StringTok(<<"b">>), Ch("]")>>
    /\ calls[1].at = "returned" /\ calls[2].at = "returned"
    /\ calls[1].args = (T_x.tt :> HostString(<<"a">>))
    /\ calls[2].args = (T_x.tt :> HostString(<<"t", "r", "u", "e">>))
    /\ calls[1].b = FALSE /\ calls[2].b = TRUE
    /\ calls[1].err = NoErr /\ calls[2].err = NoErr

----------------------------------------------------------------------------
(* The root *)

RootReduction == evaluateSubtree(result.called, ast, result.args, FALSE)

\* C18: Evaluate returns no error only for a tree whose root reduces to a
\* boolean literal; for a root that reduces to a number, a string or a set it
\* returns false and an error.
C18_RootIsBoolean ==
    (result.called # "none" /\ ~result.panic) =>
        /\ result.err = NoErr
              => /\ ast.node # "nil"
                 /\ RootReduction.err = NoErr
                 /\ RootReduction.expr.node = "BooleanLiteral"
                 /\ result.b = RootReduction.expr.Val
        /\ (ast.node # "nil" /\ RootReduction.err = NoErr
              /\ RootReduction.expr.node # "BooleanLiteral")
              => (result.b = FALSE /\ result.err = "Unexpected result of the root expression")

\* C18's case: [x] was evaluated with x bound to the number 1
C18_Witness ==
    /\ RootBound
    /\ src = Var(T_x)
    /\ RootValue = HostInt("int", 1)
    /\ RootReduction.expr = NumberLiteral(1)
    /\ result.b = FALSE
    /\ result.err = "Unexpected result of the root expression"

----------------------------------------------------------------------------
(* The names of a tree *)

FirstAt(a, x) == CHOOSE i \in 1..Len(a) : a[i] = x /\ \A j \in 1..(i - 1) : a[j] # x

\* C19: Variables returns the names the tree references, each once, nothing
\* else, in the order of their first occurrences, and removing the duplicates
\* of its result changes nothing.
C19_Variables ==
    names.called =>
        LET a == Args(ast)
            v == names.v
        IN /\ Range(v) = Range(a)
           /\ \A i \in 1..Len(v), j \in 1..Len(v) : i # j => v[i] # v[j]
           /\ \A i \in 1..Len(v), j \in 1..Len(v) : i < j => FirstAt(a, v[i]) < FirstAt(a, v[j])
           /\ removeDuplicates(v) = v

\* C19's case: Variables was called on [x] == $0 OR $0 == [x]
C19_Witness ==
    /\ names.called
    /\ Args(ast) = <<T_x.tt, <<"$", "0">>, <<"$", "0">>, T_x.tt>>
    /\ names.v = <<T_x.tt, <<"$", "0">>>>

----------------------------------------------------------------------------
(* Bound sequences *)

\* a []interface{} with an element that is not a string
MixedList(v) == v.k = "[]interface{}" /\ \E i \in 1..Len(v.elems) : v.elems[i].k # "string"

\* C20: a tree that references a name bound to a sequence with an element
\* that is not a string evaluates to false and an error: the sequence is not
\* turned into the set of its string elements.
C20_MixedListIsError ==
    (/\ result.called = "named"
     /\ \E n \in Range(Args(ast)) : n \in DOMAIN result.args /\ MixedList(result.args[n])
     /\ AllBound({"string", "[]interface{}"}))
        => (~result.panic /\ result.b = FALSE /\ result.err # NoErr)

----------------------------------------------------------------------------
(* Pushback *)

\* parseExpr has read, after an operand, a token that is no operator and is
\* about to push it back
PushingBack ==
    /\ AtTop("parseExpr", "op")
    /\ ret.tok # "ILLEGAL"
    /\ ~isOperator(ret.tok)

\* C21: the token parseExpr pushes back is the token, with its text, that
\* the next call of scanWithMapping returns.
C21_PushbackRereads ==
    PushingBack =>
        LET r == scanWithMapping(unscan(parser))
        IN r.loop = "none" /\ r.tok = ret.tok /\ r.tt = ret.tt

----------------------------------------------------------------------------
(* Both operands are reduced *)

\* the reductions of the operands of the root, in the order of the code: the
\* left one, and after it the right one
RootLeft == evaluateSubtree(result.called, Unparen(ast).LHS, result.args, FALSE)
RootRight == evaluateSubtree(result.called, Unparen(ast).RHS, result.args, RootLeft.fv)
Failed(r) == ~r.panic /\ r.err # NoErr
Succeeded(r) == ~r.panic /\ r.err = NoErr

\* the reduction of an operand of the root returned an error
OperandFailed ==
    /\ result.called # "none"
    /\ Unparen(ast).node = "BinaryExpr"
    /\ \/ Failed(RootLeft)
       \/ Succeeded(RootLeft) /\ Failed(RootRight)

\* C22: when the reduction of the left operand or, after it, of the right
\* operand of a binary node returns an error, Evaluate returns false and an
\* error, whatever the operator and the other operand are.
C22_NoShortCircuit ==
    OperandFailed => (~result.panic /\ result.b = FALSE /\ result.err # NoErr)

\* C22's case: true OR [x] was evaluated with x bound to nothing
C22_Witness ==
    /\ result.called = "named"
    /\ src = <<T_true, T_OR>> \o Var(T_x)
    /\ ast = BinaryExpr(BooleanLiteral(TRUE), "OR", VarRef(T_x.tt))
    /\ result.args = <<>>
    /\ Succeeded(RootLeft) /\ Failed(RootRight)
    /\ result.b = FALSE /\ result.err # NoErr

----------------------------------------------------------------------------
(* Array literals of mixed kinds *)

\* ["a", 1] and [1, "a"]
MixedArrays ==
    {<<Ch("["), T_a, Ch(","), T_1, Ch("]")>>,
     <<Ch("["), T_1, Ch(","), T_a, Ch("]")>>}

\* C23: Parse of an array literal that mixes strings and numbers does not
\* panic and returns an error and no tree.
C23_MixedArrayIsParseError ==
    src \in MixedArrays =>
        /\ pc # "panic"
        /\ pc = "done" => (parseErr # NoErr /\ ast = Nil)

====
